---- MODULE Spec2Model ----
(***************************************************************************)
(* Model of BatchEmbeddingProcessor (src/src/batch_embedding_processor.py): *)
(* the checkpointed batch indexing pipeline, its checkpoint directory and   *)
(* its final artifacts.  One processor object lives in one OS process; the  *)
(* process may be killed at any step, which loses the object but keeps the  *)
(* files.                                                                   *)
(*                                                                          *)
(* A chunk is identified by its position in chunked_docs; its metadata is   *)
(* that identity and its embedding under model m is the pair <<m, chunk>>.  *)
(* A file is a record whose st field is "absent", "partial" (opened for     *)
(* writing, truncated, not completely written), "ok", or "null" (an index   *)
(* file that records a None index).                                         *)
(*                                                                          *)
(* Model of RAGVerificationSystem (src/src/rag_verification_system.py): the *)
(* grounding verifier, its content cache and the source files it reads.     *)
(* Scores are exact numbers in ten-thousandths (0.6 is 6000); the doubles   *)
(* of the code differ from them by rounding, which can decide a comparison  *)
(* only when the exact value equals the threshold.  A source text is        *)
(* identified by what the verified response finds in it: the number of      *)
(* distinct phrases of the response it contains and the cosine of the two   *)
(* embeddings.                                                              *)
(***************************************************************************)
EXTENDS Integers, Sequences, FiniteSets, TLC

\* ---- bounds ----
MaxChunks == 3
MaxRuns == 3
MaxSources == 3
MaxMatches == 6
MaxCalls == 2
MaxK == 4
MaxRetries == 3
MaxRequests == 2
MaxResponseWords == 6
MaxSourceWords == 3

\* ---- configuration values the processor can be constructed with ----
Models == {"all-MiniLM-L6-v2", "all-MiniLM-L12-v2", "all-mpnet-base-v2"}
BatchSizes == {1, 2}

\* SentenceTransformer.get_sentence_embedding_dimension()
ModelDim(m) == IF m = "all-mpnet-base-v2" THEN 768 ELSE 384

\* the checkpoint_path arguments process_all_batches is called with
CheckpointPaths == {"checkpoint", "ckpt_run"}

VARIABLES
    chunked_docs,      \* the pickled input, the same for every run
    checkpoint_path,   \* the checkpoint_path argument, the same for every run
    ckptDir,           \* os.path.exists(checkpoint_path)
    ckptIdx,           \* <checkpoint_path>/vector_index.idx
    ckptMeta,          \* <checkpoint_path>/vector_metadata.pkl
    ckptState,         \* <checkpoint_path>/processing_state.pkl
    defaultDir,        \* os.path.exists("checkpoint") when checkpoint_path is another
                       \* directory (FALSE when checkpoint_path is "checkpoint" itself)
    removed,           \* history: what the checkpoint held when the run removed it
    ckptBatchSize,     \* history: chunk_batch_size of the run that wrote ckptState
    finalIdx,          \* ./vector_index.idx
    finalMeta,         \* ./vector_metadata.pkl
    model_name, chunk_batch_size, embedding_dim, faiss_index, metadata,
    pc,                \* position of the process in process_all_batches
    resume, loaded, state, start_batch, batch_num,
    embeddings, batch_metadata,
    runs,              \* number of process_all_batches invocations so far
    cleanHistory,      \* history: only batch-boundary interruptions and resume=True re-runs
    failedBatch,       \* history: batch whose embedding or insertion raised in the
                       \* preceding invocation (kept for the next one only when that
                       \* invocation ran with resume=True and this configuration), else -1
    files,             \* the source files on disk, by path
    source_content_cache,  \* RAGVerificationSystem.source_content_cache
    relevant_docs,     \* verify_response's argument: the source path of each document
    source_verifications,  \* the local list verify_response builds
    encode_called,     \* history: whether embedder.encode was called for each entry
    result,            \* the ResponseVerification verify_response returned
    v_pc,              \* position of the caller in verify_response
    calls,             \* number of verify_response calls so far
    rag_faiss_index,   \* HealthRAGSystem.faiss_index
    rag_metadata,      \* HealthRAGSystem.metadata
    rag_pc,            \* how far load_search_system got on the engine
    search_k,          \* the k of the last search_relevant_documents call
    search_labels,     \* history: the row ids faiss_index.search reported in that call
    search_out,        \* what that call raised and returned
    gen_pc,            \* position of the caller in generate_response
    max_retries,       \* generate_response's argument
    attempt,           \* the loop variable of generate_response
    llm_calls,         \* history: chat.completions.create calls made by this call
    relevant_count,    \* len(relevant_docs) of this call
    gen_out,           \* what generate_response returned
    GROQ_API_KEY,      \* os.environ['GROQ_API_KEY'] of the server process
    user_api_key,      \* per request: the X-User-API-Key header
    original_key,      \* per request: the local of temporary_api_key
    req_pc,            \* per request: position in the with statement
    env_at_start,      \* history: GROQ_API_KEY before any request entered
    match_response,    \* _find_exact_matches: the response argument
    match_source,      \* _find_exact_matches: the source_content argument
    match_pc,          \* whether _find_exact_matches has returned
    match_out          \* the phrases it returned

disk == <<ckptDir, ckptIdx, ckptMeta, ckptState, ckptBatchSize, finalIdx, finalMeta>>
checkpoint == <<ckptDir, ckptIdx, ckptMeta, ckptState, ckptBatchSize>>
finals == <<finalIdx, finalMeta>>
config == <<model_name, chunk_batch_size>>
memory == <<embedding_dim, faiss_index, metadata>>
locals == <<resume, loaded, state, start_batch, batch_num, embeddings, batch_metadata>>
verifier == <<files, source_content_cache, relevant_docs, source_verifications,
              encode_called, result, v_pc, calls>>
retrieval == <<rag_faiss_index, rag_metadata, rag_pc, search_k, search_labels, search_out>>
generation == <<gen_pc, max_retries, attempt, llm_calls, relevant_count, gen_out>>
apikeys == <<GROQ_API_KEY, user_api_key, original_key, req_pc, env_at_start>>
matching == <<match_response, match_source, match_pc, match_out>>
services == <<retrieval, generation, apikeys, matching>>
fixed == <<chunked_docs, checkpoint_path, verifier, services>>
cleanup == <<defaultDir, removed>>
vars == <<fixed, cleanup, disk, config, memory, pc, locals, runs, cleanHistory, failedBatch>>

\* ---- values ----
NoIndex == [none |-> TRUE, d |-> 0, rows |-> <<>>]
NoIdxFile == [st |-> "absent", d |-> 0, rows |-> <<>>]
NoMetaFile == [st |-> "absent", rows |-> <<>>]
NoStateFile == [st |-> "absent", processed_chunks |-> 0, model_name |-> "", embedding_dim |-> 0]
NoState == [processed_chunks |-> 0, model_name |-> "", embedding_dim |-> 0]
NoRemoved == [was |-> FALSE, idx |-> <<>>, meta |-> <<>>]

Min(a, b) == IF a < b THEN a ELSE b

\* chunked_docs[batch_start:batch_end] with 0-based, end-exclusive bounds
Slice(s, from, to) == SubSeq(s, from + 1, Min(to, Len(s)))

\* doc.metadata for doc in chunked_docs
MetadataOf(docs) == [i \in 1..Len(docs) |-> docs[i]]

\* self.model.encode(texts): one vector per text, in order
Encode(m, docs) == [i \in 1..Len(docs) |-> <<m, docs[i]>>]

\* total_batches = (total_chunks + chunk_batch_size - 1) // chunk_batch_size
TotalBatches(n, bs) == (n + bs - 1) \div bs

total_chunks == Len(chunked_docs)
total_batches == TotalBatches(total_chunks, chunk_batch_size)

\* ---- the grounding verifier: sources, texts and files ----
\* the 'source' paths the metadata entries carry
SourcePaths == {"data/raw/diabetes.txt"}

\* source_metadata.get('source', ''): '' when the entry names no source
DocSources == SourcePaths \cup {""}

\* every relevant_docs list of at most MaxSources documents
DocLists == UNION {[1..n -> DocSources] : n \in 0..MaxSources}

\* float(similarity): cosines of two embeddings, in ten-thousandths
Cosines == {-10000, -5000, 0, 5000, 7000, 8000, 10000}

\* the text "" and the texts a file can hold
EmptyText == [empty |-> TRUE, phrases |-> 0, cosine |-> 0]
Texts == {EmptyText} \cup [empty : {FALSE}, phrases : 0..MaxMatches, cosine : Cosines]

\* a path that os.path.exists denies, a file that open() or f.read() refuses
\* (PermissionError, UnicodeDecodeError), a file that reads as its text
Missing == [st |-> "missing", text |-> EmptyText]
FileStates ==
    [st : {"missing", "denied", "undecodable"}, text : {EmptyText}] \cup [st : {"ok"}, text : Texts]

\* self.source_content_cache = {}
NoCache == [p \in SourcePaths |-> [cached |-> FALSE, text |-> EmptyText]]

\* no ResponseVerification has been returned
NoResult ==
    [sources_used |-> <<>>, total_verification_score |-> [num |-> 0, den |-> 1],
     verification_ratio |-> [num |-> 0, den |-> 1],
     is_grounded |-> FALSE, hallucination_risk |-> "none"]

\* RAGVerificationSystem.__init__ has returned and no call has been made
VerifierConstructed ==
    /\ source_content_cache = NoCache
    /\ relevant_docs = <<>>
    /\ source_verifications = <<>>
    /\ encode_called = <<>>
    /\ result = NoResult
    /\ v_pc = "idle"
    /\ calls = 0


\* ---- the retrieval engine ----
\* no search_relevant_documents call has been made on the engine
NoSearch == [raised |-> "unset", results |-> <<>>]

\* HealthRAGSystem.__init__ has returned: nothing is loaded
EngineConstructed ==
    /\ rag_faiss_index = NoIndex
    /\ rag_metadata = <<>>
    /\ rag_pc = "new"
    /\ search_k = 0
    /\ search_labels = <<>>
    /\ search_out = NoSearch

\* ---- response generation ----
\* generate_response has not returned
NoResponse == [kind |-> "unset", keys |-> {}, attempt |-> 0, relevant_docs |-> 0]

\* no generate_response call is in progress or has been made
GenerationIdle ==
    /\ gen_pc = "idle"
    /\ max_retries = 0
    /\ attempt = 0
    /\ llm_calls = 0
    /\ relevant_count = 0
    /\ gen_out = NoResponse

\* ---- the web server's requests ----
Requests == 1..MaxRequests

\* None: a missing header, a missing environment variable
None == "None"

\* no request has arrived
NoRequests ==
    /\ GROQ_API_KEY = "server_key"
    /\ env_at_start = "server_key"
    /\ user_api_key = [r \in Requests |-> None]
    /\ original_key = [r \in Requests |-> None]
    /\ req_pc = [r \in Requests |-> "request"]

\* ---- phrase matching ----
\* _find_exact_matches is not being called
NoMatching ==
    /\ match_response = <<>>
    /\ match_source = <<>>
    /\ match_pc = "unused"
    /\ match_out = {}

\* the components a specification does not exercise
ServicesUnused == EngineConstructed /\ GenerationIdle /\ NoRequests /\ NoMatching

\* the state of a new processor on a disk without checkpoint and artifacts
InitProcessor ==
    /\ chunked_docs \in {[i \in 1..n |-> i] : n \in 0..MaxChunks}
    /\ removed = NoRemoved
    /\ ckptDir = FALSE
    /\ ckptIdx = NoIdxFile
    /\ ckptMeta = NoMetaFile
    /\ ckptState = NoStateFile
    /\ ckptBatchSize = 0
    /\ finalIdx = NoIdxFile
    /\ finalMeta = NoMetaFile
    /\ model_name \in Models
    /\ chunk_batch_size \in BatchSizes
    /\ embedding_dim = 0
    /\ faiss_index = NoIndex
    /\ metadata = <<>>
    /\ pc = "idle"
    /\ resume = FALSE
    /\ loaded = FALSE
    /\ state = NoState
    /\ start_batch = 0
    /\ batch_num = 0
    /\ embeddings = <<>>
    /\ batch_metadata = <<>>
    /\ runs = 0
    /\ cleanHistory = TRUE
    /\ failedBatch = -1

\* main(): checkpoint_path is the default "checkpoint"
Init ==
    /\ InitProcessor
    /\ checkpoint_path = "checkpoint"
    /\ defaultDir = FALSE
    /\ files = [p \in SourcePaths |-> Missing]
    /\ VerifierConstructed
    /\ ServicesUnused

\* ---- __init__ (a new process constructs a new processor) ----
NewProcessor(m, bs) ==
    /\ pc \in {"idle", "crashed", "done", "failed"}
    /\ runs < MaxRuns
    /\ model_name' = m
    /\ chunk_batch_size' = bs
    /\ embedding_dim' = 0
    /\ faiss_index' = NoIndex
    /\ metadata' = <<>>
    /\ pc' = "idle"
    /\ resume' = FALSE
    /\ loaded' = FALSE
    /\ state' = NoState
    /\ start_batch' = 0
    /\ batch_num' = 0
    /\ embeddings' = <<>>
    /\ batch_metadata' = <<>>
    /\ cleanHistory' = (cleanHistory /\ (runs = 0 \/
                           (pc = "crashed" /\ m = model_name /\ bs = chunk_batch_size)))
    /\ failedBatch' = IF pc = "failed" /\ resume /\ m = model_name /\ bs = chunk_batch_size
                       THEN failedBatch ELSE -1
    /\ UNCHANGED <<fixed, cleanup, disk, runs>>

\* ---- load_checkpoint: the processor fields and the return value it leaves ----
\* Each read that raises is caught by the except clause, which returns False
\* and keeps whatever the earlier statements of the try block assigned.
load_checkpoint ==
    IF ~ckptDir THEN
        [ok |-> FALSE, faiss_index |-> faiss_index, metadata |-> metadata, state |-> NoState]
    ELSE IF ckptIdx.st # "ok" THEN
        [ok |-> FALSE, faiss_index |-> faiss_index, metadata |-> metadata, state |-> NoState]
    ELSE IF ckptMeta.st # "ok" THEN
        [ok |-> FALSE,
         faiss_index |-> [none |-> FALSE, d |-> ckptIdx.d, rows |-> ckptIdx.rows],
         metadata |-> metadata, state |-> NoState]
    ELSE IF ckptState.st # "ok" THEN
        [ok |-> FALSE,
         faiss_index |-> [none |-> FALSE, d |-> ckptIdx.d, rows |-> ckptIdx.rows],
         metadata |-> ckptMeta.rows, state |-> NoState]
    ELSE
        [ok |-> TRUE,
         faiss_index |-> [none |-> FALSE, d |-> ckptIdx.d, rows |-> ckptIdx.rows],
         metadata |-> ckptMeta.rows,
         state |-> [processed_chunks |-> ckptState.processed_chunks,
                    model_name |-> ckptState.model_name,
                    embedding_dim |-> ckptState.embedding_dim]]

\* ---- process_all_batches, lines 174-196: up to the head of the batch loop ----
StartRun(r) ==
    /\ pc \in {"idle", "done", "failed"}
    /\ runs < MaxRuns
    /\ runs' = runs + 1
    /\ resume' = r
    /\ embedding_dim' = ModelDim(model_name)
    /\ LET lc == load_checkpoint IN
        IF r THEN
            /\ loaded' = lc.ok
            /\ faiss_index' = lc.faiss_index
            /\ metadata' = lc.metadata
            /\ state' = lc.state
            /\ start_batch' = IF lc.ok THEN Len(lc.metadata) \div chunk_batch_size ELSE 0
        ELSE
            /\ loaded' = FALSE
            /\ state' = NoState
            /\ start_batch' = 0
            /\ UNCHANGED <<faiss_index, metadata>>
    /\ batch_num' = start_batch'
    /\ embeddings' = <<>>
    /\ batch_metadata' = <<>>
    /\ pc' = "loop"
    /\ cleanHistory' = (cleanHistory /\ (runs = 0 \/ (r /\ pc = "idle")))
    /\ failedBatch' = IF pc = "idle" \/ (pc = "failed" /\ resume) THEN failedBatch ELSE -1
    /\ UNCHANGED <<fixed, cleanup, disk, config>>

\* ---- the batch that range(start_batch, total_batches) is at ----
batch_start == batch_num * chunk_batch_size
batch_end == Min((batch_num + 1) * chunk_batch_size, total_chunks)
batch_docs == Slice(chunked_docs, batch_start, batch_end)

\* ---- process_batch returns ----
ProcessBatch ==
    /\ pc = "loop"
    /\ batch_num < total_batches
    /\ embeddings' = Encode(model_name, batch_docs)
    /\ batch_metadata' = MetadataOf(batch_docs)
    /\ pc' = "embedded"
    /\ failedBatch' = -1
    /\ UNCHANGED <<fixed, cleanup, disk, config, memory, resume, loaded, state,
                   start_batch, batch_num, runs, cleanHistory>>

\* ---- self.model.encode raises; the exception leaves process_all_batches ----
EmbedRaises ==
    /\ pc = "loop"
    /\ batch_num < total_batches
    /\ pc' = "failed"
    /\ failedBatch' = batch_num
    /\ cleanHistory' = FALSE
    /\ UNCHANGED <<fixed, cleanup, disk, config, memory, locals, runs>>

\* add_to_index, lines 105-106: the index the vectors are added to
IndexForAdd ==
    IF faiss_index.none
    THEN [none |-> FALSE, d |-> ModelDim(model_name), rows |-> <<>>]
    ELSE faiss_index

\* ---- add_to_index; faiss asserts the vectors have the index's dimension ----
AddToIndex ==
    /\ pc = "embedded"
    /\ embedding_dim' = IF faiss_index.none THEN ModelDim(model_name) ELSE embedding_dim
    /\ IF IndexForAdd.d = ModelDim(model_name) THEN
            /\ faiss_index' = [IndexForAdd EXCEPT !.rows = @ \o embeddings]
            /\ pc' = "added"
            /\ UNCHANGED <<failedBatch, cleanHistory>>
       ELSE
            /\ faiss_index' = IndexForAdd
            /\ pc' = "failed"
            /\ failedBatch' = batch_num
            /\ cleanHistory' = FALSE
    /\ UNCHANGED <<fixed, cleanup, disk, config, metadata, locals, runs>>

\* ---- faiss_index.add raises for another reason (out of memory) ----
AddRaises ==
    /\ pc = "embedded"
    /\ embedding_dim' = IF faiss_index.none THEN ModelDim(model_name) ELSE embedding_dim
    /\ faiss_index' = IndexForAdd
    /\ pc' = "failed"
    /\ failedBatch' = batch_num
    /\ cleanHistory' = FALSE
    /\ UNCHANGED <<fixed, cleanup, disk, config, metadata, locals, runs>>

\* ---- self.metadata.extend(metadata) ----
ExtendMetadata ==
    /\ pc = "added"
    /\ metadata' = metadata \o batch_metadata
    /\ pc' = "extended"
    /\ UNCHANGED <<fixed, cleanup, disk, config, embedding_dim, faiss_index, locals,
                   runs, cleanHistory, failedBatch>>

\* ---- save_checkpoint, lines 113-114: os.makedirs ----
SaveMkdir ==
    /\ pc = "extended"
    /\ ckptDir' = TRUE
    /\ removed' = NoRemoved
    /\ pc' = "ck_dir"
    /\ UNCHANGED <<fixed, defaultDir, ckptIdx, ckptMeta, ckptState, ckptBatchSize, finals,
                   config, memory, locals, runs, cleanHistory, failedBatch>>

\* ---- faiss.write_index opens checkpoint/vector_index.idx, truncating it ----
CkIdxOpen ==
    /\ pc = "ck_dir"
    /\ ckptIdx' = [st |-> "partial", d |-> 0, rows |-> <<>>]
    /\ pc' = "ck_idx_w"
    /\ UNCHANGED <<fixed, cleanup, ckptDir, ckptMeta, ckptState, ckptBatchSize, finals,
                   config, memory, locals, runs, cleanHistory, failedBatch>>

\* ---- faiss.write_index returns: the index file is complete ----
CkIdxWrite ==
    /\ pc = "ck_idx_w"
    /\ ckptIdx' = [st |-> "ok", d |-> faiss_index.d, rows |-> faiss_index.rows]
    /\ pc' = "ck_idx"
    /\ UNCHANGED <<fixed, cleanup, ckptDir, ckptMeta, ckptState, ckptBatchSize, finals,
                   config, memory, locals, runs, cleanHistory, failedBatch>>

\* ---- open(vector_metadata.pkl, 'wb') truncates the metadata file ----
CkMetaOpen ==
    /\ pc = "ck_idx"
    /\ ckptMeta' = [st |-> "partial", rows |-> <<>>]
    /\ pc' = "ck_meta_w"
    /\ UNCHANGED <<fixed, cleanup, ckptDir, ckptIdx, ckptState, ckptBatchSize, finals,
                   config, memory, locals, runs, cleanHistory, failedBatch>>

\* ---- pickle.dump(self.metadata, f) and close ----
CkMetaWrite ==
    /\ pc = "ck_meta_w"
    /\ ckptMeta' = [st |-> "ok", rows |-> metadata]
    /\ pc' = "ck_meta"
    /\ UNCHANGED <<fixed, cleanup, ckptDir, ckptIdx, ckptState, ckptBatchSize, finals,
                   config, memory, locals, runs, cleanHistory, failedBatch>>

\* ---- open(processing_state.pkl, 'wb') truncates the state file ----
CkStateOpen ==
    /\ pc = "ck_meta"
    /\ ckptState' = [st |-> "partial", processed_chunks |-> 0, model_name |-> "",
                     embedding_dim |-> 0]
    /\ pc' = "ck_state_w"
    /\ UNCHANGED <<fixed, cleanup, ckptDir, ckptIdx, ckptMeta, ckptBatchSize, finals,
                   config, memory, locals, runs, cleanHistory, failedBatch>>

\* ---- pickle.dump(state, f) and close: save_checkpoint returns ----
CkStateWrite ==
    /\ pc = "ck_state_w"
    /\ ckptState' = [st |-> "ok", processed_chunks |-> Len(metadata),
                     model_name |-> model_name, embedding_dim |-> embedding_dim]
    /\ ckptBatchSize' = chunk_batch_size
    /\ pc' = "ck_saved"
    /\ UNCHANGED <<fixed, cleanup, ckptDir, ckptIdx, ckptMeta, finals,
                   config, memory, locals, runs, cleanHistory, failedBatch>>

\* ---- lines 220-229 and the next iteration of the for loop ----
NextBatchUnsaved ==
    /\ pc \in {"extended", "ck_saved"}
    /\ batch_num' = batch_num + 1
    /\ pc' = "loop"
    /\ UNCHANGED <<fixed, cleanup, disk, config, memory, resume, loaded, state, start_batch,
                   embeddings, batch_metadata, runs, cleanHistory, failedBatch>>
NextBatch ==
    /\ pc = "ck_saved"
    /\ batch_num' = batch_num + 1
    /\ pc' = "loop"
    /\ UNCHANGED <<fixed, cleanup, disk, config, memory, resume, loaded, state, start_batch,
                   embeddings, batch_metadata, runs, cleanHistory, failedBatch>>

\* ---- save_final_results: faiss.write_index(None, path) raises ----
\* self.faiss_index is still None when no batch ran.  What faiss does with a
\* None index depends on the faiss build: the binding rejects it before the
\* file is opened, or the writer opens (truncates) the file and then throws,
\* or (FinalIdxOpen, FinalIdxWrite) it writes a "null" index record and returns.
FinalRaises ==
    /\ pc = "loop"
    /\ batch_num >= total_batches
    /\ faiss_index.none
    /\ finalIdx' \in {finalIdx, [st |-> "partial", d |-> 0, rows |-> <<>>]}
    /\ pc' = "failed"
    /\ cleanHistory' = FALSE
    /\ UNCHANGED <<fixed, cleanup, checkpoint, finalMeta, config, memory, locals, runs,
                   failedBatch>>

\* ---- save_final_results: faiss.write_index opens ./vector_index.idx ----
FinalIdxOpen ==
    /\ pc = "loop"
    /\ batch_num >= total_batches
    /\ finalIdx' = [st |-> "partial", d |-> 0, rows |-> <<>>]
    /\ pc' = "fin_idx_w"
    /\ UNCHANGED <<fixed, cleanup, checkpoint, finalMeta, config, memory, locals, runs,
                   cleanHistory, failedBatch>>

\* ---- faiss.write_index returns: ./vector_index.idx is complete ----
FinalIdxWrite ==
    /\ pc = "fin_idx_w"
    /\ finalIdx' = IF faiss_index.none
                   THEN [st |-> "null", d |-> 0, rows |-> <<>>]
                   ELSE [st |-> "ok", d |-> faiss_index.d, rows |-> faiss_index.rows]
    /\ pc' = "fin_idx"
    /\ UNCHANGED <<fixed, cleanup, checkpoint, finalMeta, config, memory, locals, runs,
                   cleanHistory, failedBatch>>

\* ---- open(metadata_path, 'wb') truncates ./vector_metadata.pkl ----
FinalMetaOpen ==
    /\ pc = "fin_idx"
    /\ finalMeta' = [st |-> "partial", rows |-> <<>>]
    /\ pc' = "fin_meta_w"
    /\ UNCHANGED <<fixed, cleanup, checkpoint, finalIdx, config, memory, locals, runs,
                   cleanHistory, failedBatch>>

\* ---- pickle.dump(self.metadata, f) and close ----
FinalMetaWrite ==
    /\ pc = "fin_meta_w"
    /\ finalMeta' = [st |-> "ok", rows |-> metadata]
    /\ pc' = "fin_meta"
    /\ UNCHANGED <<fixed, cleanup, checkpoint, finalIdx, config, memory, locals, runs,
                   cleanHistory, failedBatch>>

\* os.path.exists("checkpoint"): the literal name, whatever checkpoint_path is
CheckpointDirExists == IF checkpoint_path = "checkpoint" THEN ckptDir ELSE defaultDir

\* variant: the clean-up also runs before the metadata artifact is written
CleanupBeforeMetadata == pc \in {"fin_idx", "fin_meta"}

\* save_final_results reaches the clean-up after both artifacts are written
CleanupReady == pc = "fin_meta"

\* variant: shutil.rmtree is called without the os.path.exists test
CleanupUnguarded == TRUE

\* line 258: the test that guards shutil.rmtree
CleanupGuard == CheckpointDirExists

\* ---- save_final_results, lines 257-259: the test and the call of rmtree ----
\* shutil.rmtree raises FileNotFoundError on a directory that does not exist.
CleanupCheckpoint ==
    /\ CleanupReady
    /\ IF CleanupGuard THEN
            IF CheckpointDirExists THEN
                /\ pc' = "rmtree"
                /\ removed' = IF checkpoint_path = "checkpoint"
                               THEN [was |-> FALSE, idx |-> ckptIdx.rows, meta |-> ckptMeta.rows]
                               ELSE removed
                /\ UNCHANGED cleanHistory
            ELSE
                /\ pc' = "failed"
                /\ cleanHistory' = FALSE
                /\ UNCHANGED removed
       ELSE
            /\ pc' = "cleaned"
            /\ UNCHANGED <<removed, cleanHistory>>
    /\ UNCHANGED <<fixed, defaultDir, disk, config, memory, locals, runs, failedBatch>>

\* ---- shutil.rmtree unlinks one file of the directory ----
RmtreeFile(f) ==
    /\ pc = "rmtree"
    /\ checkpoint_path = "checkpoint"
    /\ \/ /\ f = "vector_index.idx"
          /\ ckptIdx.st # "absent"
          /\ ckptIdx' = NoIdxFile
          /\ UNCHANGED <<ckptMeta, ckptState, ckptBatchSize>>
       \/ /\ f = "vector_metadata.pkl"
          /\ ckptMeta.st # "absent"
          /\ ckptMeta' = NoMetaFile
          /\ UNCHANGED <<ckptIdx, ckptState, ckptBatchSize>>
       \/ /\ f = "processing_state.pkl"
          /\ ckptState.st # "absent"
          /\ ckptState' = NoStateFile
          /\ ckptBatchSize' = 0
          /\ UNCHANGED <<ckptIdx, ckptMeta>>
    /\ UNCHANGED <<fixed, cleanup, ckptDir, finals, config, memory, pc, locals, runs,
                   cleanHistory, failedBatch>>

\* ---- shutil.rmtree removes the emptied directory and returns (line 260) ----
\* A "checkpoint" directory that is not the run's checkpoint_path is removed
\* in one step: its files are not part of the model.
RmtreeDir ==
    /\ pc = "rmtree"
    /\ IF checkpoint_path = "checkpoint" THEN
            /\ ckptIdx.st = "absent" /\ ckptMeta.st = "absent" /\ ckptState.st = "absent"
            /\ ckptDir' = FALSE
            /\ removed' = [removed EXCEPT !.was = TRUE]
            /\ UNCHANGED defaultDir
       ELSE
            /\ defaultDir' = FALSE
            /\ UNCHANGED <<ckptDir, removed>>
    /\ pc' = "cleaned"
    /\ UNCHANGED <<fixed, ckptIdx, ckptMeta, ckptState, ckptBatchSize, finals, config,
                   memory, locals, runs, cleanHistory, failedBatch>>

\* ---- lines 234-241: the summary reads self.faiss_index.ntotal, then returns ----
FinishRun ==
    /\ pc = "cleaned"
    /\ pc' = IF faiss_index.none THEN "failed" ELSE "done"
    /\ cleanHistory' = (cleanHistory /\ ~faiss_index.none)
    /\ UNCHANGED <<fixed, cleanup, disk, config, memory, locals, runs, failedBatch>>

\* ---- the process is killed: the processor object is lost, the files stay ----
RunningPcs == {"loop", "embedded", "added", "extended", "ck_dir", "ck_idx_w", "ck_idx",
               "ck_meta_w", "ck_meta", "ck_state_w", "ck_saved",
               "fin_idx_w", "fin_idx", "fin_meta_w", "fin_meta", "rmtree", "cleaned"}

Crash ==
    /\ pc \in RunningPcs
    /\ pc' = "crashed"
    /\ embedding_dim' = 0
    /\ faiss_index' = NoIndex
    /\ metadata' = <<>>
    /\ resume' = FALSE
    /\ loaded' = FALSE
    /\ state' = NoState
    /\ start_batch' = 0
    /\ batch_num' = 0
    /\ embeddings' = <<>>
    /\ batch_metadata' = <<>>
    /\ cleanHistory' = (cleanHistory /\ pc \in {"loop", "ck_saved"})
    /\ failedBatch' = -1
    /\ UNCHANGED <<fixed, cleanup, disk, config, runs>>

Next ==
    \/ \E m \in Models, bs \in BatchSizes : NewProcessor(m, bs)
    \/ \E r \in BOOLEAN : StartRun(r)
    \/ ProcessBatch
    \/ EmbedRaises
    \/ AddToIndex
    \/ AddRaises
    \/ ExtendMetadata
    \/ SaveMkdir
    \/ CkIdxOpen
    \/ CkIdxWrite
    \/ CkMetaOpen
    \/ CkMetaWrite
    \/ CkStateOpen
    \/ CkStateWrite
    \/ NextBatch
    \/ FinalRaises
    \/ FinalIdxOpen
    \/ FinalIdxWrite
    \/ FinalMetaOpen
    \/ FinalMetaWrite
    \/ CleanupCheckpoint
    \/ \E f \in {"vector_index.idx", "vector_metadata.pkl", "processing_state.pkl"} :
            RmtreeFile(f)
    \/ RmtreeDir
    \/ FinishRun
    \/ Crash

Spec == Init /\ [][Next]_vars

(***************************************************************************)
(* SpecPaths: process_all_batches is called with any checkpoint_path, while *)
(* a directory named "checkpoint" may or may not exist beside it; every     *)
(* processor is constructed with the same model and batch size.             *)
(***************************************************************************)
InitPaths ==
    /\ InitProcessor
    /\ checkpoint_path \in CheckpointPaths
    /\ defaultDir \in IF checkpoint_path = "checkpoint" THEN {FALSE} ELSE BOOLEAN
    /\ files = [p \in SourcePaths |-> Missing]
    /\ VerifierConstructed
    /\ ServicesUnused

NextPaths ==
    \/ NewProcessor(model_name, chunk_batch_size)
    \/ \E r \in BOOLEAN : StartRun(r)
    \/ ProcessBatch
    \/ EmbedRaises
    \/ AddToIndex
    \/ AddRaises
    \/ ExtendMetadata
    \/ SaveMkdir
    \/ CkIdxOpen
    \/ CkIdxWrite
    \/ CkMetaOpen
    \/ CkMetaWrite
    \/ CkStateOpen
    \/ CkStateWrite
    \/ NextBatch
    \/ FinalRaises
    \/ FinalIdxOpen
    \/ FinalIdxWrite
    \/ FinalMetaOpen
    \/ FinalMetaWrite
    \/ CleanupCheckpoint
    \/ \E f \in {"vector_index.idx", "vector_metadata.pkl", "processing_state.pkl"} :
            RmtreeFile(f)
    \/ RmtreeDir
    \/ FinishRun
    \/ Crash

SpecPaths == InitPaths /\ [][NextPaths]_vars

(***************************************************************************)
(* Reference: the rows one uninterrupted run over docs leaves, batch by     *)
(* batch as lines 198-215 build them.                                       *)
(***************************************************************************)
RECURSIVE UninterruptedRows(_, _, _, _)
UninterruptedRows(docs, bs, m, b) ==
    IF b >= TotalBatches(Len(docs), bs) THEN <<>>
    ELSE Encode(m, Slice(docs, b * bs, Min((b + 1) * bs, Len(docs))))
         \o UninterruptedRows(docs, bs, m, b + 1)

RECURSIVE UninterruptedMetadata(_, _, _)
UninterruptedMetadata(docs, bs, b) ==
    IF b >= TotalBatches(Len(docs), bs) THEN <<>>
    ELSE MetadataOf(Slice(docs, b * bs, Min((b + 1) * bs, Len(docs))))
         \o UninterruptedMetadata(docs, bs, b + 1)

\* the state right after StartRun: at the loop head, no batch of this run done
JustStarted == pc = "loop" /\ batch_num = start_batch

\* the checkpoint directory holds three complete, mutually consistent files
CompleteCheckpoint ==
    /\ ckptDir
    /\ ckptIdx.st = "ok" /\ ckptMeta.st = "ok" /\ ckptState.st = "ok"
    /\ Len(ckptIdx.rows) = Len(ckptMeta.rows)
    /\ ckptState.processed_chunks = Len(ckptMeta.rows)

\* the checkpoint directory holds no file at all
NoCheckpoint ==
    ckptIdx.st = "absent" /\ ckptMeta.st = "absent" /\ ckptState.st = "absent"

\* the number of chunks a valid checkpoint records as processed
CheckpointRecorded == IF CompleteCheckpoint THEN ckptState.processed_chunks ELSE 0

\* C1: a run interrupted only at batch boundaries and re-invoked with
\* resume=True, the same model and the same batch size ends with the same
\* index rows and the same metadata, in the same order, as one uninterrupted run.
C1_ResumeEquivalence ==
    (pc = "done" /\ cleanHistory) =>
        /\ finalIdx.st = "ok" /\ finalMeta.st = "ok"
        /\ finalIdx.rows = UninterruptedRows(chunked_docs, chunk_batch_size, model_name, 0)
        /\ finalMeta.rows = UninterruptedMetadata(chunked_docs, chunk_batch_size, 0)

\* C2: at every saved checkpoint and at final completion the index has as many
\* vectors as the metadata has entries, and the i-th metadata entry is the
\* metadata of the i-th input chunk.
C2_RowAlignment ==
    pc \in {"ck_saved", "done"} =>
        /\ Len(faiss_index.rows) = Len(metadata)
        /\ Len(metadata) <= total_chunks
        /\ \A i \in 1..Len(metadata) :
               i <= total_chunks => metadata[i] = MetadataOf(chunked_docs)[i]

\* C3: when the process stops at any point of a checkpoint save, the store
\* holds a complete, consistent checkpoint (the previous or the new one) or
\* none; the index file and the metadata file never differ in row count.
C3_AtomicCheckpointSave ==
    pc = "crashed" =>
        /\ NoCheckpoint \/ CompleteCheckpoint
        /\ (ckptIdx.st = "ok" /\ ckptMeta.st = "ok") =>
               Len(ckptIdx.rows) = Len(ckptMeta.rows)

\* C4: when embedding or insertion raises for batch b of a resume=True run, the
\* checkpoint on disk records exactly the batches before b, and the next
\* resume=True invocation restarts at batch b with exactly the rows before it.
C4_FailureSemantics ==
    /\ (pc = "failed" /\ resume /\ failedBatch >= 0) =>
           CheckpointRecorded = failedBatch * chunk_batch_size
    /\ (JustStarted /\ resume /\ failedBatch >= 0) =>
           /\ start_batch = failedBatch
           /\ Len(metadata) = failedBatch * chunk_batch_size
           /\ Len(faiss_index.rows) = failedBatch * chunk_batch_size

\* C5: a run that does not resume from a checkpoint starts at batch 0 with an
\* empty index and an empty metadata sequence.
C5_FreshStartIsEmpty ==
    (JustStarted /\ ~loaded) =>
        /\ start_batch = 0
        /\ faiss_index.rows = <<>>
        /\ metadata = <<>>

\* C6: a checkpoint that load_checkpoint accepts has an index with as many rows
\* as its metadata has entries.
C6_LoadValidatesConsistency ==
    (JustStarted /\ loaded) => Len(faiss_index.rows) = Len(metadata)

\* the checkpoint that was loaded records another model or another dimension
LoadedMismatch ==
    loaded /\ (state.model_name # model_name \/ state.embedding_dim # ModelDim(model_name))

\* C7: a run never continues from a checkpoint whose recorded model identity or
\* embedding dimension differs from the configured model, and no vector of the
\* configured model is in an index loaded from such a checkpoint.
C7_ConfigMismatchRejected ==
    LoadedMismatch =>
        /\ pc \notin RunningPcs
        /\ \A i \in 1..Len(faiss_index.rows) : faiss_index.rows[i][1] # model_name

\* C8: a run never continues from a checkpoint that was written with another
\* batch size.
C8_BatchSizeMismatchRejected ==
    (loaded /\ batch_num = start_batch /\ pc \in {"loop", "embedded", "added", "extended"}) =>
        ckptBatchSize = chunk_batch_size

\* the positions inside save_checkpoint
SavingPcs == {"ck_dir", "ck_idx_w", "ck_idx", "ck_meta_w", "ck_meta", "ck_state_w"}

\* C9: the processed count in the state descriptor equals the number of entries
\* of the checkpoint's metadata file whenever no save is in progress, also
\* after a crash at any point of a checkpoint save.
C9_ProgressAccounting ==
    (pc \notin SavingPcs /\ ckptState.st = "ok" /\ ckptMeta.st = "ok") =>
        ckptState.processed_chunks = Len(ckptMeta.rows)

\* C10: with an empty chunk sequence process_all_batches does not raise, and
\* when it has returned the final artifacts hold an empty index and metadata.
C10_EmptyInputCompletes ==
    total_chunks = 0 =>
        /\ pc # "failed"
        /\ pc = "done" =>
               /\ finalIdx.st = "ok" /\ finalIdx.rows = <<>>
               /\ finalMeta.st = "ok" /\ finalMeta.rows = <<>>

\* s is an initial segment of t
IsPrefix(s, t) == Len(s) <= Len(t) /\ SubSeq(t, 1, Len(s)) = s

\* C11: whenever the checkpoint is absent because a run removed it, both final
\* artifacts are completely written and hold every row the checkpoint held
\* (also after a crash inside save_final_results).
C11_DeleteAfterFinalArtifacts ==
    (removed.was /\ ~ckptDir) =>
        /\ finalIdx.st = "ok" /\ finalMeta.st = "ok"
        /\ IsPrefix(removed.idx, finalIdx.rows)
        /\ IsPrefix(removed.meta, finalMeta.rows)

\* C11 witness: the process was killed inside save_final_results after rmtree
\* removed a checkpoint that held rows.
C11_Witness ==
    removed.was /\ ~ckptDir /\ pc = "crashed" /\ Len(removed.idx) > 0

\* C12: once a run has completed, no checkpoint remains at the checkpoint_path
\* the run was given.
C12_NoCheckpointAfterCompletion ==
    pc = "done" => (~ckptDir /\ NoCheckpoint)

\* C13: clearing an absent checkpoint is not an error and changes nothing on
\* disk, and after every clear the "checkpoint" directory is absent, so a
\* second clear has the result of the first.
C13_ClearIdempotent ==
    /\ [](pc = "cleaned" => ~CheckpointDirExists)
    /\ [][(pc = "fin_meta" /\ ~CheckpointDirExists /\ pc' # "crashed")
            => (pc' = "cleaned" /\ UNCHANGED <<disk, defaultDir>>)]_vars

\* C13 witness: a second run has cleared a checkpoint that was never created.
C13_Witness ==
    pc = "cleaned" /\ runs = 2 /\ total_chunks = 0 /\ ~CheckpointDirExists

(***************************************************************************)
(* The grounding verifier.  One RAGVerificationSystem object serves up to   *)
(* MaxCalls verify_response calls; source files are deleted and created at  *)
(* any time, between two calls and during one.                              *)
(***************************************************************************)
pipeline == <<chunked_docs, checkpoint_path, cleanup, disk, config, memory, pc, locals,
              runs, cleanHistory, failedBatch>>

\* the thresholds of __init__, in ten-thousandths
EXACT_MATCH_THRESHOLD == 8000
SEMANTIC_SIMILARITY_THRESHOLD == 7000
GROUNDING_THRESHOLD == 6000

\* os.path.exists(source_path)
Exists(p) == p \in SourcePaths /\ files[p].st # "missing"

\* what open(source_path, 'r', encoding='utf-8') and f.read() raise
ReadError(p) ==
    IF files[p].st = "denied" THEN "PermissionError"
    ELSE IF files[p].st = "undecodable" THEN "UnicodeDecodeError"
    ELSE "none"

\* the errors an `except OSError` handler catches, and those the handler of
\* _get_source_content, `except Exception`, catches
IsOSError(e) == e = "PermissionError"
IsException(e) == e \in {"PermissionError", "UnicodeDecodeError"}

\* _get_source_content: the content it returns, the cache it leaves, and
\* whether an exception leaves it
_get_source_content(p) ==
    IF p \in SourcePaths /\ source_content_cache[p].cached
    THEN [content |-> source_content_cache[p].text, cache |-> source_content_cache,
          raised |-> FALSE]
    ELSE IF Exists(p)
    THEN IF ReadError(p) = "none"
         THEN [content |-> files[p].text,
               cache |-> [source_content_cache EXCEPT
                              ![p] = [cached |-> TRUE, text |-> files[p].text]],
               raised |-> FALSE]
         ELSE [content |-> EmptyText, cache |-> source_content_cache,
               raised |-> ~IsException(ReadError(p))]
    ELSE [content |-> EmptyText, cache |-> source_content_cache, raised |-> FALSE]

\* len(self._find_exact_matches(response, source_content))
FindExactMatches(text) == text.phrases

\* _calculate_semantic_similarity: the cosine, or 0.0 when the embedder raises
SemanticSimilarity(text, fails) == IF fails THEN 0 ELSE text.cosine

\* exact_match_score = min(len(exact_matches) * 0.2, 1.0)
ExactMatchScoreUncapped(n) == n * 2000
ExactMatchScore(n) == Min(n * 2000, 10000)

\* verification_confidence = (exact_match_score * 0.4) + (semantic_similarity * 0.6)
ConfidencePenalised(n, sim) == (sim * 6 - ExactMatchScore(n) * 4) \div 10
Confidence(n, sim) == (ExactMatchScore(n) * 4 + sim * 6) \div 10

\* is_verified, lines 208-211
IsVerifiedInclusive(n, sim, conf) ==
    (n > 0 /\ sim >= SEMANTIC_SIMILARITY_THRESHOLD) \/ conf >= GROUNDING_THRESHOLD
IsVerified(n, sim, conf) ==
    (n > 0 /\ sim > SEMANTIC_SIMILARITY_THRESHOLD) \/ conf > GROUNDING_THRESHOLD

\* the SourceVerification of lines 186-195
UnverifiedSource(p) ==
    [source_file |-> p, similarity_score |-> 0, exact_matches |-> 0,
     is_verified |-> FALSE, verification_confidence |-> 0]

\* verify_source_grounding: the SourceVerification it returns, the cache it
\* leaves, whether the embedder was called and whether an exception leaves it
verify_source_grounding(p, fails) ==
    LET got == _get_source_content(p)
        source_content == got.content
        exact_matches == FindExactMatches(source_content)
        semantic_similarity == SemanticSimilarity(source_content, fails)
        verification_confidence == Confidence(exact_matches, semantic_similarity)
    IN  IF got.raised
        THEN [sv |-> UnverifiedSource(p), cache |-> got.cache, encoded |-> FALSE,
              raised |-> TRUE]
        ELSE IF source_content.empty
        THEN [sv |-> UnverifiedSource(p), cache |-> got.cache, encoded |-> FALSE,
              raised |-> FALSE]
        ELSE [sv |-> [source_file |-> p,
                      similarity_score |-> semantic_similarity,
                      exact_matches |-> exact_matches,
                      is_verified |-> IsVerified(exact_matches, semantic_similarity,
                                                 verification_confidence),
                      verification_confidence |-> verification_confidence],
              cache |-> got.cache, encoded |-> TRUE, raised |-> FALSE]

\* sum(sv.verification_confidence for sv in source_verifications)
RECURSIVE SumConfidence(_)
SumConfidence(svs) ==
    IF svs = <<>> THEN 0 ELSE svs[1].verification_confidence + SumConfidence(Tail(svs))

\* sum(1 for sv in source_verifications if sv.is_verified)
RECURSIVE VerifiedSources(_)
VerifiedSources(svs) ==
    IF svs = <<>> THEN 0
    ELSE (IF svs[1].is_verified THEN 1 ELSE 0) + VerifiedSources(Tail(svs))

\* total_score, lines 247-252, as the fraction num/den of ten-thousandths
TotalConfidence(svs) == [num |-> SumConfidence(svs), den |-> 1]
MeanConfidence(svs) ==
    IF svs # <<>> THEN [num |-> SumConfidence(svs), den |-> Len(svs)]
    ELSE [num |-> 0, den |-> 1]

\* verification_ratio, lines 249-253, as a fraction of ten-thousandths
VerificationRatio(svs) ==
    IF svs # <<>> THEN [num |-> 10000 * VerifiedSources(svs), den |-> Len(svs)]
    ELSE [num |-> 0, den |-> 1]

\* q > t for the fraction q and the number t
Above(q, t) == q.num > t * q.den

\* is_grounded = total_score > self.GROUNDING_THRESHOLD and verification_ratio > 0.3
IsGroundedLenient(total_score, verification_ratio) ==
    Above(total_score, 4000) /\ Above(verification_ratio, 3000)
IsGrounded(total_score, verification_ratio) ==
    Above(total_score, GROUNDING_THRESHOLD) /\ Above(verification_ratio, 3000)

\* hallucination_risk, lines 259-264
RiskOfInclusive(total_score, verification_ratio) ==
    IF total_score.num >= 8000 * total_score.den
       /\ verification_ratio.num >= 6000 * verification_ratio.den THEN "LOW"
    ELSE IF total_score.num >= 5000 * total_score.den
            /\ verification_ratio.num >= 3000 * verification_ratio.den THEN "MEDIUM"
    ELSE "HIGH"
RiskOf(total_score, verification_ratio) ==
    IF Above(total_score, 8000) /\ Above(verification_ratio, 6000) THEN "LOW"
    ELSE IF Above(total_score, 5000) /\ Above(verification_ratio, 3000) THEN "MEDIUM"
    ELSE "HIGH"

\* ---- a later process constructs a new verifier: __init__ ----
NewVerifier ==
    /\ v_pc \in {"returned", "raised"}
    /\ source_content_cache' = NoCache
    /\ relevant_docs' = <<>>
    /\ source_verifications' = <<>>
    /\ encode_called' = <<>>
    /\ result' = NoResult
    /\ v_pc' = "idle"
    /\ UNCHANGED <<files, calls, pipeline, services>>

\* ---- verify_response is called: line 239 ----
VerifyResponse(docs) ==
    /\ v_pc \in {"idle", "returned", "raised"}
    /\ calls < MaxCalls
    /\ calls' = calls + 1
    /\ relevant_docs' = docs
    /\ source_verifications' = <<>>
    /\ encode_called' = <<>>
    /\ result' = NoResult
    /\ v_pc' = "loop"
    /\ UNCHANGED <<files, source_content_cache, pipeline, services>>

\* ---- one iteration of the loop of lines 242-244 ----
VerifySource ==
    /\ v_pc = "loop"
    /\ Len(source_verifications) < Len(relevant_docs)
    /\ \E fails \in BOOLEAN :
          LET r == verify_source_grounding(relevant_docs[Len(source_verifications) + 1], fails)
          IN  IF r.raised
              THEN /\ v_pc' = "raised"
                   /\ UNCHANGED <<source_content_cache, source_verifications, encode_called>>
              ELSE /\ source_content_cache' = r.cache
                   /\ source_verifications' = Append(source_verifications, r.sv)
                   /\ encode_called' = Append(encode_called, r.encoded)
                   /\ UNCHANGED v_pc
    /\ UNCHANGED <<files, relevant_docs, result, calls, pipeline, services>>

\* ---- lines 246-288: the scores, the verdicts and the return ----
AggregateVerification ==
    /\ v_pc = "loop"
    /\ Len(source_verifications) = Len(relevant_docs)
    /\ LET total_score == MeanConfidence(source_verifications)
           verification_ratio == VerificationRatio(source_verifications)
       IN  result' = [sources_used |-> source_verifications,
                      total_verification_score |-> total_score,
                      verification_ratio |-> verification_ratio,
                      is_grounded |-> IsGrounded(total_score, verification_ratio),
                      hallucination_risk |-> RiskOf(total_score, verification_ratio)]
    /\ v_pc' = "returned"
    /\ UNCHANGED <<files, source_content_cache, relevant_docs, source_verifications,
                   encode_called, calls, pipeline, services>>

\* ---- a source file is deleted ----
DeleteFile(p) ==
    /\ files[p].st # "missing"
    /\ files' = [files EXCEPT ![p] = Missing]
    /\ UNCHANGED <<source_content_cache, relevant_docs, source_verifications,
                   encode_called, result, v_pc, calls, pipeline, services>>

\* ---- a source file is created at a path that had none ----
CreateFile(p, f) ==
    /\ files[p].st = "missing"
    /\ f.st # "missing"
    /\ files' = [files EXCEPT ![p] = f]
    /\ UNCHANGED <<source_content_cache, relevant_docs, source_verifications,
                   encode_called, result, v_pc, calls, pipeline, services>>

InitVerify ==
    /\ InitProcessor
    /\ chunked_docs = <<>>
    /\ model_name = "all-MiniLM-L6-v2"
    /\ chunk_batch_size = 1
    /\ checkpoint_path = "checkpoint"
    /\ defaultDir = FALSE
    /\ files \in [SourcePaths -> FileStates]
    /\ VerifierConstructed
    /\ ServicesUnused

NextVerify ==
    \/ NewVerifier
    \/ \E docs \in DocLists : VerifyResponse(docs)
    \/ VerifySource
    \/ AggregateVerification
    \/ \E p \in SourcePaths : DeleteFile(p)
    \/ \E p \in SourcePaths : \E f \in FileStates : CreateFile(p, f)

SpecVerify == InitVerify /\ [][NextVerify]_vars

(***************************************************************************)
(* Properties of the grounding verifier.                                    *)
(***************************************************************************)
\* the document the loop of verify_response is at
CurrentSource == relevant_docs[Len(source_verifications) + 1]

\* the sum of the confidences of the first k entries, by position
RECURSIVE ConfidenceSum(_, _)
ConfidenceSum(svs, k) ==
    IF k = 0 THEN 0 ELSE ConfidenceSum(svs, k - 1) + svs[k].verification_confidence

\* the number x as a fraction
Frac(x) == [num |-> x, den |-> 1]

\* scores and ratios around and between the thresholds, in ten-thousandths
ScoreGrid == {500 * k : k \in -12..20} \cup {4999, 5001, 5999, 6001, 7999, 8001}
RatioGrid == {500 * k : k \in 0..20} \cup {2999, 3001, 3333, 5999, 6001, 6667}

\* C14: verify_response never raises and is never stuck: while it runs it has
\* verified no more sources than it was given and its next step is enabled,
\* and what it returns holds one SourceVerification per document; when no
\* source of the returned report is verified, the risk is HIGH and the
\* response is not grounded.
C14_VerifyAlwaysCompletes ==
    /\ v_pc # "raised"
    /\ v_pc = "loop" =>
          /\ Len(source_verifications) <= Len(relevant_docs)
          /\ ENABLED (VerifySource \/ AggregateVerification)
    /\ v_pc = "returned" =>
          /\ Len(result.sources_used) = Len(relevant_docs)
          /\ result.hallucination_risk \in {"LOW", "MEDIUM", "HIGH"}
          /\ (\A i \in 1..Len(result.sources_used) : ~result.sources_used[i].is_verified)
                => (result.hallucination_risk = "HIGH" /\ ~result.is_grounded)

\* a report was returned for several documents while the source file cannot
\* be decoded and was not read into the cache
C14_Witness ==
    /\ v_pc = "returned"
    /\ Len(relevant_docs) >= 2
    /\ \E i \in 1..Len(relevant_docs) :
          /\ relevant_docs[i] \in SourcePaths
          /\ files[relevant_docs[i]].st = "undecodable"
          /\ ~source_content_cache[relevant_docs[i]].cached
    /\ \E i \in 1..Len(relevant_docs) : relevant_docs[i] = ""
    /\ result.hallucination_risk = "HIGH"

\* the classification of lines 259-264 over the grid, and the three examples
RiskTable ==
    /\ \A t \in ScoreGrid : \A r \in RatioGrid :
          LET risk == RiskOf(Frac(t), Frac(r))
              low == t > 8000 /\ r > 6000
              medium == ~low /\ t > 5000 /\ r > 3000
          IN  /\ risk \in {"LOW", "MEDIUM", "HIGH"}
              /\ risk = "LOW" <=> low
              /\ risk = "MEDIUM" <=> medium
              /\ risk = "HIGH" <=> (~low /\ ~medium)
    /\ RiskOf(Frac(8500), Frac(7000)) = "LOW"
    /\ RiskOf(Frac(6000), Frac(4000)) = "MEDIUM"
    /\ RiskOf(Frac(2000), Frac(1000)) = "HIGH"

\* C15: the risk is LOW exactly when total_score > 0.8 and ratio > 0.6, MEDIUM
\* exactly when it is not LOW and total_score > 0.5 and ratio > 0.3, and HIGH
\* otherwise, over the grid of scores and ratios, for the three examples and
\* for every report verify_response returns.
C15_RiskClassification ==
    /\ RiskTable
    /\ v_pc = "returned" =>
          LET t == result.total_verification_score
              r == result.verification_ratio
              low == t.num > 8000 * t.den /\ r.num > 6000 * r.den
              medium == ~low /\ t.num > 5000 * t.den /\ r.num > 3000 * r.den
          IN  /\ result.hallucination_risk = "LOW" <=> low
              /\ result.hallucination_risk = "MEDIUM" <=> medium
              /\ result.hallucination_risk = "HIGH" <=> (~low /\ ~medium)

\* a report of MEDIUM risk over verified and unverified sources
C15_Witness ==
    /\ v_pc = "returned"
    /\ result.hallucination_risk = "MEDIUM"
    /\ \E i \in 1..Len(result.sources_used) : ~result.sources_used[i].is_verified

\* C16: the returned total score is the mean of the per-source confidences,
\* the ratio is the number of verified sources over the number of sources,
\* both are 0 without sources, is_grounded is true exactly when the total
\* exceeds 0.6 and the ratio exceeds 0.3, and a report over zero sources has
\* total 0, is not grounded and has risk HIGH.
C16_AggregateGrounding ==
    v_pc = "returned" =>
        LET svs == result.sources_used
            n == Len(svs)
            t == result.total_verification_score
            r == result.verification_ratio
            verified == Cardinality({i \in 1..n : svs[i].is_verified})
        IN  /\ svs = source_verifications
            /\ t.den > 0 /\ r.den > 0
            /\ n > 0 => /\ t.num * n = ConfidenceSum(svs, n) * t.den
                        /\ r.num * n = 10000 * verified * r.den
            /\ n = 0 => /\ t.num = 0
                        /\ r.num = 0
                        /\ ~result.is_grounded
                        /\ result.hallucination_risk = "HIGH"
            /\ result.is_grounded <=> (t.num > 6000 * t.den /\ r.num > 3000 * r.den)

\* a grounded report over several sources of which one is not verified
C16_Witness ==
    /\ v_pc = "returned"
    /\ result.is_grounded
    /\ Len(result.sources_used) >= 2
    /\ \E i \in 1..Len(result.sources_used) : ~result.sources_used[i].is_verified

\* C17: for a source whose content was found, the confidence is
\* 0.4 * min(0.2 * matches, 1.0) + 0.6 * similarity, the matches being those
\* of the text read; from five matches on the first term no longer grows.
C17_ConfidenceAggregation ==
    \A i \in 1..Len(source_verifications) :
        LET sv == source_verifications[i]
        IN  encode_called[i] =>
               /\ sv.source_file \in SourcePaths
               /\ source_content_cache[sv.source_file].cached
               /\ sv.exact_matches = source_content_cache[sv.source_file].text.phrases
               /\ 10 * sv.verification_confidence =
                     4 * (IF sv.exact_matches >= 5 THEN 10000 ELSE 2000 * sv.exact_matches)
                     + 6 * sv.similarity_score

\* a source with more than five matches and a positive similarity was verified
C17_Witness ==
    \E i \in 1..Len(source_verifications) :
        /\ encode_called[i]
        /\ source_verifications[i].exact_matches > 5
        /\ source_verifications[i].similarity_score = 5000

\* C18: for a source whose content was found, is_verified is true exactly
\* when (there is an exact match and the similarity exceeds 0.7) or the
\* confidence exceeds 0.6.
C18_VerifiedFlag ==
    \A i \in 1..Len(source_verifications) :
        LET sv == source_verifications[i]
        IN  encode_called[i] =>
               (sv.is_verified <=>
                   \/ sv.exact_matches >= 1 /\ sv.similarity_score > 7000
                   \/ sv.verification_confidence > 6000)

\* a source verified by its confidence alone, at similarity exactly 0.7
C18_Witness ==
    \E i \in 1..Len(source_verifications) :
        /\ encode_called[i]
        /\ source_verifications[i].is_verified
        /\ source_verifications[i].similarity_score = 7000

\* C19: when verify_source_grounding is applied to a source whose path does
\* not exist on disk, it does not raise, it returns a SourceVerification with
\* is_verified false, confidence 0, similarity 0 and no exact match, and it
\* makes no embedding call.
C19_MissingSourceHandling ==
    [][(/\ v_pc = "loop"
        /\ Len(source_verifications) < Len(relevant_docs)
        /\ ~Exists(CurrentSource)
        /\ \/ v_pc' = "raised"
           \/ Len(source_verifications') = Len(source_verifications) + 1)
       => (/\ v_pc' = "loop"
           /\ source_verifications'[Len(source_verifications')] = UnverifiedSource(CurrentSource)
           /\ ~encode_called'[Len(encode_called')])]_vars

\* C20: every SourceVerification has its confidence within [0, 1], and so has
\* the total score of every returned report.
C20_ConfidenceWithinUnitInterval ==
    /\ \A i \in 1..Len(source_verifications) :
          /\ source_verifications[i].verification_confidence >= 0
          /\ source_verifications[i].verification_confidence <= 10000
    /\ v_pc = "returned" =>
          /\ result.total_verification_score.num >= 0
          /\ result.total_verification_score.num <= 10000 * result.total_verification_score.den

\* C21: with the similarity held fixed, a source with more shared phrases has
\* no smaller confidence, and a verified source stays verified: for every
\* SourceVerification returned and every larger number of phrases.
C21_VerificationMonotonicity ==
    \A i \in 1..Len(source_verifications) :
        LET sv == source_verifications[i]
        IN  encode_called[i] =>
               \A m \in sv.exact_matches..(MaxMatches + 1) :
                   LET c == Confidence(m, sv.similarity_score)
                   IN  /\ c >= sv.verification_confidence
                       /\ sv.is_verified => IsVerified(m, sv.similarity_score, c)

\* a source with two phrases that is not verified and that a third phrase, at
\* the same similarity, would make verified
C21_Witness ==
    \E i \in 1..Len(source_verifications) :
        LET sv == source_verifications[i]
        IN  /\ encode_called[i]
            /\ sv.exact_matches = 2
            /\ ~sv.is_verified
            /\ IsVerified(3, sv.similarity_score, Confidence(3, sv.similarity_score))

\* what verify_source_grounding returns for the file as it is on disk
DiskText(p) ==
    IF p \in SourcePaths /\ files[p].st = "ok" THEN files[p].text ELSE EmptyText
DiskVerification(p, fails) ==
    LET text == DiskText(p)
        n == text.phrases
        sim == IF fails THEN 0 ELSE text.cosine
        c == (4 * (IF n >= 5 THEN 10000 ELSE 2000 * n) + 6 * sim) \div 10
    IN  IF text.empty THEN UnverifiedSource(p)
        ELSE [source_file |-> p, similarity_score |-> sim, exact_matches |-> n,
              is_verified |-> ((n >= 1 /\ sim > 7000) \/ c > 6000),
              verification_confidence |-> c]

\* C22: every SourceVerification verify_response obtains is the one the
\* content the source file holds on disk at that moment determines (the
\* embedder answering or failing), whatever the verifier instance did before.
C22_VerifierIsPure ==
    [][(v_pc = "loop" /\ Len(source_verifications') = Len(source_verifications) + 1)
       => \E fails \in BOOLEAN :
             source_verifications'[Len(source_verifications')]
                = DiskVerification(CurrentSource, fails)]_vars

\* the verdicts over the grid of scores and ratios
VerdictTable ==
    \A t \in ScoreGrid : \A r \in RatioGrid :
        LET grounded == IsGrounded(Frac(t), Frac(r))
            risk == RiskOf(Frac(t), Frac(r))
        IN  /\ grounded => risk \in {"LOW", "MEDIUM"}
            /\ risk = "LOW" => grounded
            /\ risk = "HIGH" => ~grounded

\* C30: a grounded report has risk LOW or MEDIUM, a report of risk LOW is
\* grounded and a report of risk HIGH is not grounded: for every returned
\* report and for every score and ratio of the grid.
C30_VerdictConsistency ==
    /\ VerdictTable
    /\ v_pc = "returned" =>
          /\ result.is_grounded => result.hallucination_risk \in {"LOW", "MEDIUM"}
          /\ result.hallucination_risk = "LOW" => result.is_grounded
          /\ result.hallucination_risk = "HIGH" => ~result.is_grounded

\* a report of risk MEDIUM that is grounded, and so not LOW
C30_Witness ==
    /\ v_pc = "returned"
    /\ result.is_grounded
    /\ result.hallucination_risk = "MEDIUM"
    /\ Len(result.sources_used) >= 2

(***************************************************************************)
(* Properties of the batch loop.                                            *)
(***************************************************************************)
\* a batch has been embedded and is not yet saved
BatchPcs == {"embedded", "added", "extended"}

\* the last n elements of s
Suffix(s, n) == SubSeq(s, Len(s) - n + 1, Len(s))

\* C27: within a run the steps of a batch follow each other (the vectors are
\* added after the embedding, the metadata appended after the vectors), the
\* checkpoint is completely saved before the next batch is embedded, and from
\* the first save of the run on the checkpoint on disk holds exactly the rows
\* and entries of the batches completed before the one in progress.
C27_PerBatchOrdering ==
    /\ pc \in {"added", "extended"} =>
          /\ Len(faiss_index.rows) >= Len(embeddings)
          /\ Suffix(faiss_index.rows, Len(embeddings)) = embeddings
    /\ pc = "extended" =>
          /\ Len(metadata) >= Len(batch_metadata)
          /\ Suffix(metadata, Len(batch_metadata)) = batch_metadata
    /\ (pc \in {"loop", "ck_saved"} \cup BatchPcs
        /\ (batch_num > start_batch \/ pc = "ck_saved")) =>
          /\ ckptDir
          /\ ckptIdx.st = "ok" /\ ckptMeta.st = "ok" /\ ckptState.st = "ok"
          /\ ckptState.processed_chunks = Len(ckptMeta.rows)
          /\ IsPrefix(ckptIdx.rows, faiss_index.rows)
          /\ IsPrefix(ckptMeta.rows, metadata)
          /\ Len(faiss_index.rows) - Len(ckptIdx.rows) =
                IF pc \in {"added", "extended"} THEN Len(embeddings) ELSE 0
          /\ Len(metadata) - Len(ckptMeta.rows) =
                IF pc = "extended" THEN Len(batch_metadata) ELSE 0

\* the second batch of a run that resumed from a checkpoint has its vectors
\* in the index and its metadata appended, and is not yet saved
C27_Witness ==
    /\ pc = "extended"
    /\ loaded
    /\ batch_num > start_batch
    /\ Len(ckptMeta.rows) > 0

\* C29: a run that resumes from a loaded checkpoint, after interruptions at
\* batch boundaries only and with the same model and batch size, starts at
\* the chunk whose position is the number of rows of the loaded index.
C29_ResumeOffset ==
    (JustStarted /\ loaded /\ cleanHistory) =>
        start_batch * chunk_batch_size = Len(faiss_index.rows)

(***************************************************************************)
(* The retrieval engine (HealthRAGSystem of src/src/rag_system.py).  It     *)
(* loads the final artifacts ./vector_index.idx and ./vector_metadata.pkl,  *)
(* which a run over chunked_docs wrote completely, left partly written or   *)
(* did not write, and answers searches for k in 1..MaxK.  The engine is the *)
(* one object of its process: a failed load is not repeated.                *)
(***************************************************************************)
notRetrieval == <<pipeline, verifier, generation, apikeys, matching>>

\* faiss_index.search(query_embedding, k): k labels, the ids (from 0) of the
\* nearest rows in some order of distinct rows, then -1 for every rank the
\* index has no row for
SearchLabels(n, k) ==
    {l \in [1..k -> -1..(n - 1)] :
        /\ \A i \in 1..k : IF i <= Min(k, n) THEN l[i] >= 0 ELSE l[i] = -1
        /\ \A i \in 1..k : \A j \in 1..k : (i < j /\ j <= Min(k, n)) => l[i] # l[j]}

\* self.metadata[idx] of a Python list: a negative idx counts from the end
ListIndexRaises(md, idx) == idx >= Len(md) \/ idx < -Len(md)
ListItem(md, idx) == IF idx >= 0 THEN md[idx + 1] ELSE md[Len(md) + idx + 1]

\* the loop of lines 135-141 from rank i on: what it raises and appends
RECURSIVE FormatResults(_, _, _)
FormatResults(labels, md, i) ==
    IF i > Len(labels) THEN [raised |-> "none", results |-> <<>>]
    ELSE LET idx == labels[i]
             rest == FormatResults(labels, md, i + 1)
         IN  IF idx < Len(md)
             THEN IF ListIndexRaises(md, idx)
                  THEN [raised |-> "IndexError", results |-> <<>>]
                  ELSE IF rest.raised # "none" THEN rest
                  ELSE [raised |-> "none",
                        results |-> <<[index |-> idx, metadata |-> ListItem(md, idx)]>>
                                    \o rest.results]
             ELSE rest

\* ---- load_search_system, lines 91-101: the embedder and faiss.read_index ----
LoadIndex ==
    /\ rag_pc = "new"
    /\ IF finalIdx.st = "ok"
       THEN /\ rag_faiss_index' = [none |-> FALSE, d |-> finalIdx.d, rows |-> finalIdx.rows]
            /\ rag_pc' = "index_loaded"
       ELSE /\ rag_pc' = "load_failed"
            /\ UNCHANGED rag_faiss_index
    /\ search_k' = 0
    /\ search_labels' = <<>>
    /\ search_out' = NoSearch
    /\ UNCHANGED <<rag_metadata, notRetrieval>>

\* ---- load_search_system, lines 103-111: pickle.load of the metadata ----
LoadMetadata ==
    /\ rag_pc = "index_loaded"
    /\ IF finalMeta.st = "ok"
       THEN /\ rag_metadata' = finalMeta.rows
            /\ rag_pc' = "loaded"
       ELSE /\ rag_pc' = "load_failed"
            /\ UNCHANGED rag_metadata
    /\ UNCHANGED <<rag_faiss_index, search_k, search_labels, search_out, notRetrieval>>

\* ---- search_relevant_documents(query, k) ----
SearchRelevantDocuments(k) ==
    /\ rag_pc \in {"new", "loaded", "load_failed"}
    /\ search_k' = k
    /\ IF rag_faiss_index.none
       THEN /\ search_labels' = <<>>
            /\ search_out' = [raised |-> "ValueError", results |-> <<>>]
       ELSE \E labels \in SearchLabels(Len(rag_faiss_index.rows), k) :
               /\ search_labels' = labels
               /\ search_out' = FormatResults(labels, rag_metadata, 1)
    /\ UNCHANGED <<rag_faiss_index, rag_metadata, rag_pc, notRetrieval>>

InitSearch ==
    /\ chunked_docs \in {[i \in 1..n |-> i] : n \in 0..MaxChunks}
    /\ model_name = "all-MiniLM-L6-v2"
    /\ chunk_batch_size = 1
    /\ finalIdx \in {NoIdxFile, [st |-> "partial", d |-> 0, rows |-> <<>>],
                     [st |-> "ok", d |-> ModelDim(model_name),
                      rows |-> Encode(model_name, chunked_docs)]}
    /\ finalMeta \in {NoMetaFile, [st |-> "partial", rows |-> <<>>],
                      [st |-> "ok", rows |-> MetadataOf(chunked_docs)]}
    /\ checkpoint_path = "checkpoint"
    /\ defaultDir = FALSE
    /\ removed = NoRemoved
    /\ ckptDir = FALSE
    /\ ckptIdx = NoIdxFile
    /\ ckptMeta = NoMetaFile
    /\ ckptState = NoStateFile
    /\ ckptBatchSize = 0
    /\ embedding_dim = 0
    /\ faiss_index = NoIndex
    /\ metadata = <<>>
    /\ pc = "done"
    /\ resume = FALSE
    /\ loaded = FALSE
    /\ state = NoState
    /\ start_batch = 0
    /\ batch_num = 0
    /\ embeddings = <<>>
    /\ batch_metadata = <<>>
    /\ runs = 0
    /\ cleanHistory = TRUE
    /\ failedBatch = -1
    /\ files = [p \in SourcePaths |-> Missing]
    /\ VerifierConstructed
    /\ ServicesUnused

NextSearch ==
    \/ LoadIndex
    \/ LoadMetadata
    \/ \E k \in 1..MaxK : SearchRelevantDocuments(k)

SpecSearch == InitSearch /\ [][NextSearch]_vars

\* C23: a search on a loaded engine returns at most k results, exactly
\* min(k, number of index rows) of them when the index has fewer than k rows,
\* and the result of each rank carries the id of the row the index reported
\* for that rank and the metadata of that row.
C23_RetrievalResultSize ==
    (rag_pc = "loaded" /\ search_out.raised # "unset") =>
        LET n == Len(rag_faiss_index.rows)
            results == search_out.results
        IN  /\ search_out.raised = "none"
            /\ Len(results) <= search_k
            /\ n < search_k => Len(results) = Min(search_k, n)
            /\ \A i \in 1..Len(results) :
                  /\ results[i].index = search_labels[i]
                  /\ results[i].index >= 0
                  /\ results[i].metadata = rag_metadata[results[i].index + 1]

\* C24: a search on an engine that is not completely loaded raises the
\* not-ready error and returns no result.
C24_SearchBeforeLoad ==
    (rag_pc # "loaded" /\ search_out.raised # "unset") =>
        /\ search_out.raised = "ValueError"
        /\ search_out.results = <<>>

(***************************************************************************)
(* generate_response (HealthRAGSystem of src/src/rag_system.py) on an       *)
(* engine whose Groq client was set up by __init__: the retrieval, then up  *)
(* to max_retries calls of the language model, each of which answers or     *)
(* raises.                                                                  *)
(***************************************************************************)
notGeneration == <<pipeline, verifier, retrieval, apikeys, matching>>

\* the state a specification of one of the services leaves the pipeline and
\* the verifier in
PipelineUnused ==
    /\ InitProcessor
    /\ chunked_docs = <<>>
    /\ model_name = "all-MiniLM-L6-v2"
    /\ chunk_batch_size = 1
    /\ checkpoint_path = "checkpoint"
    /\ defaultDir = FALSE
VerifierUnused ==
    /\ files = [p \in SourcePaths |-> Missing]
    /\ VerifierConstructed

\* search_relevant_documents(query, k=5)
RetrievalK == 5

\* the dict of lines 264-268 and the dict of the outer handler, lines 278-287
SuccessResponse(a, n) ==
    [kind |-> "dict", keys |-> {"response", "metadata", "relevant_docs"},
     attempt |-> a, relevant_docs |-> n]
ErrorResponse ==
    [kind |-> "dict", keys |-> {"response", "metadata", "relevant_docs"},
     attempt |-> 0, relevant_docs |-> 0]

\* a function body that ends without a return statement returns None
ReturnsNone == [kind |-> "None", keys |-> {}, attempt |-> 0, relevant_docs |-> 0]

\* ---- generate_response is called: lines 224-232, retrieval and prompt ----
\* search_relevant_documents returns n documents or raises; the outer handler
\* turns the exception into the error dict
GenerateResponse(m, n, retrieval_raises) ==
    /\ gen_pc \in {"idle", "returned"}
    /\ max_retries' = m
    /\ attempt' = 0
    /\ llm_calls' = 0
    /\ IF retrieval_raises
       THEN /\ relevant_count' = 0
            /\ gen_out' = ErrorResponse
            /\ gen_pc' = "returned"
       ELSE /\ relevant_count' = n
            /\ gen_out' = NoResponse
            /\ gen_pc' = "loop"
    /\ UNCHANGED notGeneration

\* ---- one iteration of for attempt in range(max_retries), lines 235-274 ----
\* the model answers, or the call (or reading the answer) raises: the inner
\* handler re-raises on the last attempt and continues otherwise
Attempt(answers) ==
    /\ gen_pc = "loop"
    /\ attempt < max_retries
    /\ llm_calls' = llm_calls + 1
    /\ IF answers
       THEN /\ gen_out' = SuccessResponse(attempt + 1, relevant_count)
            /\ gen_pc' = "returned"
            /\ UNCHANGED attempt
       ELSE IF attempt = max_retries - 1
       THEN /\ gen_out' = ErrorResponse
            /\ gen_pc' = "returned"
            /\ UNCHANGED attempt
       ELSE /\ attempt' = attempt + 1
            /\ UNCHANGED <<gen_pc, gen_out>>
    /\ UNCHANGED <<max_retries, relevant_count, notGeneration>>

\* ---- range(max_retries) is exhausted: the function body ends ----
LoopExhausted ==
    /\ gen_pc = "loop"
    /\ attempt >= max_retries
    /\ gen_out' = ReturnsNone
    /\ gen_pc' = "returned"
    /\ UNCHANGED <<max_retries, attempt, llm_calls, relevant_count, notGeneration>>

InitGenerate ==
    /\ PipelineUnused
    /\ VerifierUnused
    /\ ServicesUnused

NextGenerate ==
    \/ \E m \in 0..MaxRetries : \E n \in 0..RetrievalK : \E raises \in BOOLEAN :
          GenerateResponse(m, n, raises)
    \/ \E answers \in BOOLEAN : Attempt(answers)
    \/ LoopExhausted

SpecGenerate == InitGenerate /\ [][NextGenerate]_vars

\* C26: generate_response makes at most max_retries calls of the language
\* model, a successful call is the last one and its number is the attempt
\* reported, and whatever happens the call returns a dict with the keys
\* response, metadata and relevant_docs.
C26_BoundedRetry ==
    /\ llm_calls <= max_retries
    /\ gen_pc = "loop" => llm_calls = attempt
    /\ gen_pc = "returned" =>
          /\ gen_out.kind = "dict"
          /\ gen_out.keys = {"response", "metadata", "relevant_docs"}
          /\ gen_out.attempt > 0 => gen_out.attempt = llm_calls

(***************************************************************************)
(* temporary_api_key (src/src/enhanced_web_chatbot.py) under the threaded   *)
(* server of app.run: every chat request runs the context manager in its    *)
(* own thread, and all of them read and write the one os.environ of the     *)
(* process.  A thread can be switched out between any two statements.       *)
(***************************************************************************)
notKeys == <<pipeline, verifier, retrieval, generation, matching>>

\* the keys the X-User-API-Key header can carry
UserKeys == {"user_key_1", "user_key_2"}

\* the truth value of a str or None
Truthy(v) == v \notin {None, ""}

\* ---- lines 123-128: the test of the key, and the read of the original ----
EnterContext(r) ==
    /\ req_pc[r] = "request"
    /\ IF ~Truthy(user_api_key[r])
       THEN /\ req_pc' = [req_pc EXCEPT ![r] = "inside"]
            /\ UNCHANGED original_key
       ELSE /\ original_key' = [original_key EXCEPT ![r] = GROQ_API_KEY]
            /\ req_pc' = [req_pc EXCEPT ![r] = "saved"]
    /\ UNCHANGED <<GROQ_API_KEY, user_api_key, env_at_start, notKeys>>

\* ---- line 132: os.environ['GROQ_API_KEY'] = user_api_key, then the yield ----
SetKey(r) ==
    /\ req_pc[r] = "saved"
    /\ GROQ_API_KEY' = user_api_key[r]
    /\ req_pc' = [req_pc EXCEPT ![r] = "inside"]
    /\ UNCHANGED <<user_api_key, original_key, env_at_start, notKeys>>

\* ---- the body of the with statement ends: lines 125 and 135-142 ----
LeaveContext(r) ==
    /\ req_pc[r] = "inside"
    /\ IF ~Truthy(user_api_key[r])
       THEN UNCHANGED GROQ_API_KEY
       ELSE IF Truthy(original_key[r])
       THEN GROQ_API_KEY' = original_key[r]
       ELSE GROQ_API_KEY' = None
    /\ req_pc' = [req_pc EXCEPT ![r] = "left"]
    /\ UNCHANGED <<user_api_key, original_key, env_at_start, notKeys>>

\* the server runs only with GROQ_API_KEY set (lines 56-58 and 184-185); each
\* request carries a user key or none
InitKeys ==
    /\ PipelineUnused
    /\ VerifierUnused
    /\ EngineConstructed
    /\ GenerationIdle
    /\ NoMatching
    /\ GROQ_API_KEY = "server_key"
    /\ env_at_start = "server_key"
    /\ user_api_key \in [Requests -> UserKeys \cup {None}]
    /\ original_key = [r \in Requests |-> None]
    /\ req_pc = [r \in Requests |-> "request"]

NextKeys ==
    \E r \in Requests :
        \/ EnterContext(r)
        \/ SetKey(r)
        \/ LeaveContext(r)

SpecKeys == InitKeys /\ [][NextKeys]_vars

\* C25: a request that carries a user key sees its own key in GROQ_API_KEY
\* as long as it is inside the context, and whenever no request is inside
\* the context (or entering it) GROQ_API_KEY holds the value it had before
\* any request entered.
C25_NoKeyRace ==
    /\ \A r \in Requests :
          (req_pc[r] = "inside" /\ Truthy(user_api_key[r])) =>
              GROQ_API_KEY = user_api_key[r]
    /\ (\A r \in Requests : req_pc[r] \in {"request", "left"}) =>
          GROQ_API_KEY = env_at_start

(***************************************************************************)
(* _find_exact_matches (RAGVerificationSystem of                            *)
(* src/src/rag_verification_system.py) on texts spelled out character by    *)
(* character: a text is a sequence of characters, a word a sequence of      *)
(* word characters, a phrase the words joined by single spaces.             *)
(***************************************************************************)
notMatching == <<pipeline, verifier, retrieval, generation, apikeys>>

\* the characters of the texts: a space and the letters, in both cases; every
\* other character is punctuation
Space == " "
WordChars == {"a", "b", "A", "B"}

\* str.lower
LowerChar(c) == IF c = "A" THEN "a" ELSE IF c = "B" THEN "b" ELSE c
Lower(text) == [i \in DOMAIN text |-> LowerChar(text[i])]

\* re.sub(r'[^\w\s]', ' ', text)
StripPunctuation(text) ==
    [i \in DOMAIN text |-> IF text[i] \in WordChars \cup {Space} THEN text[i] ELSE Space]

\* str.split(): the maximal runs of characters that are not whitespace
RECURSIVE SplitFrom(_, _, _)
SplitFrom(text, i, word) ==
    IF i > Len(text)
    THEN IF word = <<>> THEN <<>> ELSE <<word>>
    ELSE IF text[i] = Space
    THEN IF word = <<>>
         THEN SplitFrom(text, i + 1, <<>>)
         ELSE <<word>> \o SplitFrom(text, i + 1, <<>>)
    ELSE SplitFrom(text, i + 1, Append(word, text[i]))
Split(text) == SplitFrom(text, 1, <<>>)

\* ' '.join(words)
RECURSIVE Join(_)
Join(words) ==
    IF words = <<>> THEN <<>>
    ELSE IF Len(words) = 1 THEN words[1]
    ELSE words[1] \o <<Space>> \o Join(Tail(words))

\* phrase in text, on two str values: text has phrase as a substring
In(phrase, text) ==
    \E i \in 0..(Len(text) - Len(phrase)) :
        SubSeq(text, i + 1, i + Len(phrase)) = phrase

\* range(3, 6)
PhraseLengths == 3..5

\* lines 127-143
_find_exact_matches(response, source_content) ==
    LET response_words == Split(StripPunctuation(Lower(response)))
        source_words == Split(StripPunctuation(Lower(source_content)))
    IN  { Join(SubSeq(response_words, i + 1, i + n)) :
            <<n, i>> \in { <<l, j>> \in PhraseLengths \X (0..Len(response_words)) :
                             /\ j < Len(response_words) - l + 1
                             /\ In(Join(SubSeq(response_words, j + 1, j + l)),
                                   Join(source_words)) } }

\* ---- one call of _find_exact_matches ----
FindPhrases ==
    /\ match_pc = "called"
    /\ match_out' = _find_exact_matches(match_response, match_source)
    /\ match_pc' = "returned"
    /\ UNCHANGED <<match_response, match_source, notMatching>>

\* the raw words the texts are written with, and the texts of up to n of them
ResponseWords == {<<"a">>, <<"A", ".">>, <<"b">>}
SourceWords == {<<"a">>, <<"b", "a">>, <<"a", "b">>, <<"A", ".">>}
TextsOf(words, n) == { Join(ws) : ws \in UNION { [1..k -> words] : k \in 0..n } }

InitMatch ==
    /\ PipelineUnused
    /\ VerifierUnused
    /\ EngineConstructed
    /\ GenerationIdle
    /\ NoRequests
    /\ match_response \in TextsOf(ResponseWords, MaxResponseWords)
    /\ match_source \in TextsOf(SourceWords, MaxSourceWords)
    /\ match_pc = "called"
    /\ match_out = {}

NextMatch == FindPhrases

SpecMatch == InitMatch /\ [][NextMatch]_vars

\* the words of a text after normalisation
NormalizedWords(text) == Split(StripPunctuation(Lower(text)))

\* the words of phrase are a run of consecutive whole words of words
WholeWordRun(phrase, words) ==
    \E j \in 0..(Len(words) - Len(phrase)) :
        SubSeq(words, j + 1, j + Len(phrase)) = phrase

\* the windows of 3, 4 or 5 consecutive words of words
Windows(words) ==
    { SubSeq(words, i + 1, i + n) :
        <<n, i>> \in { <<l, j>> \in (3..5) \X (0..Len(words)) : j + l <= Len(words) } }

\* C28: _find_exact_matches returns exactly the windows of 3, 4 or 5
\* consecutive words of the normalized response that occur in the normalized
\* source as a run of consecutive whole words, each as one phrase; every
\* phrase it returns has 3 to 5 words, and a response of fewer than 3 words
\* gives the empty set.
C28_ExactMatchEvidence ==
    match_pc = "returned" =>
        /\ match_out =
              { Join(w) : w \in { x \in Windows(NormalizedWords(match_response)) :
                                    WholeWordRun(x, NormalizedWords(match_source)) } }
        /\ \A phrase \in match_out : Len(Split(phrase)) \in 3..5
        /\ Len(NormalizedWords(match_response)) < 3 => match_out = {}

====
